---- MODULE Spec2Model ----
(***************************************************************************)
(* A model of easypy/signals.py: one Signal, its tiered handler lists, the *)
(* SignalHandler wrappers and the dispatch loop of Signal.__call__ with    *)
(* its synchronous calls and its tasks on the executor.                    *)
(*                                                                         *)
(* Python's None is the empty tuple and a present value x is <<x>>, for    *)
(* the optional attributes (times, async, identifier, a keyword argument). *)
(* Python values that handlers are compared with are strings; the value    *)
(* None among them is PyNone.                                              *)
(***************************************************************************)
EXTENDS Integers, Sequences, FiniteSets, TLC

None == <<>>
Some(x) == <<x>>
Val(o) == o[1]

\* (a variant: the tiers in another order)
PRIORITIES_reordered == <<"NONE", "FIRST", "LAST">>

\* PRIORITIES = Enum("PRIORITIES", "FIRST NONE LAST"), in definition order
PRIORITIES == <<"FIRST", "NONE", "LAST">>

\* SignalHandler._idx_gen = count(100)
IdxStart == 100

\* Bounds of the model
MaxHandlers == 3
MaxTimes == 1

\* The callables of the environment: a function or a bound method, plain
\* or wrapped in functools.partial
Funcs == {"f", "g"}
Layers == {"plain", "partial"}
PyNone == "None"

\* The objects whose bound methods are registered, and the trigger's targets.
\*   cls   the object's class
\*   attr  the value of its attribute named like the signal's identifier
\*   path  the value its identifier_path evaluates to
\* (None: no such attribute)
Objects ==
    [ X |-> [cls |-> "A", attr |-> None, path |-> None],
      Y |-> [cls |-> "A", attr |-> None, path |-> Some("X")],
      P |-> [cls |-> "B", attr |-> Some("X"), path |-> Some("Y")],
      Q |-> [cls |-> "B", attr |-> Some(PyNone), path |-> None] ]
ObjNames == DOMAIN Objects
Targets == {"X", "Y"}
ClassOf(v) == IF v \in ObjNames THEN Objects[v].cls ELSE "NoneType"

\* The names signals are looked up by, the classes they are made of and the
\* threads that do it
Names == {"on_a", "on_ctx_a"}
Classes == {"Signal", "ContextManagerSignal"}
Threads == {"MainThread", "Thread-1"}
TriggerThreads == {"t1", "t2"}
ThreadIdle == [pc |-> "idle", k |-> 1, i |-> 0, h |-> 0, times |-> 0]
NoScope == [open |-> FALSE, func |-> <<>>, h |-> 0, before |-> FALSE]
NoCall == [op |-> "none", name |-> "", ret |-> 0, exc |-> ""]

VARIABLES
    sig,        \* the Signal's attributes async, swallow_exceptions, identifier
    handlers,   \* Signal.handlers: priority -> list of handler idx
    hs,         \* the SignalHandler objects, by idx
    idx_gen,    \* SignalHandler._idx_gen
    pc,         \* where Signal.__call__ is: idle, dispatch, wait, unwind, done
    kwargs,     \* the trigger's keyword arguments
    it,         \* the dispatch loop's chain iterator: tier k, index i in it
    futures,    \* whether the trigger entered Futures.executor()
    submitted,  \* the handlers submitted to the executor, in order
    completed,  \* the submitted handlers that finished, in completion order
    consumed,   \* how many futures the as_completed loop has taken
    exc,        \* the exception propagating out of the trigger, or None
    result,     \* what the finished trigger gave its caller
    \* history of the trigger in flight
    order,      \* the handlers the dispatch loop called or submitted, in order
    ran,        \* the handlers whose callable was executed
    raised,     \* the handlers whose callable raised
    logged,     \* the handlers whose failure was written to the log
    unregd,     \* the handlers removed while the dispatch loop ran
    \* the registry
    ALL,        \* Signal.ALL: name -> the Signal object stored under it
    objects,    \* how many Signal objects object.__new__ has made
    returned,   \* history: per name, the objects its lookups have returned
    last,       \* history: the last call of the module's interface
    scope,      \* the open scope of Signal.registered, if any
    \* ContextManagerSignal.__call__
    cm_handlers, \* its local list handlers: the synchronous handlers, in order
    stack,      \* handlers_stack: the resources entered and not yet exited
    entered,    \* history: the resources entered, in order of acquisition
    exited,     \* history: the resources exited, in order
    threads,    \* the threads that trigger the signal concurrently: where each
                \* is in Signal.__call__ and SignalHandler.__call__
    midreg      \* history: the handlers registered while the dispatch loop ran

sigVars == <<sig, handlers, hs, idx_gen>>
frameVars == <<pc, kwargs, it, futures, submitted, completed, consumed, exc, result>>
histVars == <<order, ran, raised, logged, unregd>>
regVars == <<ALL, objects, returned, last>>
scopeVars == <<scope>>
cmVars == <<cm_handlers, stack, entered, exited>>
raceVars == <<threads>>
snapVars == <<midreg>>
vars == <<sig, handlers, hs, idx_gen, pc, kwargs, it, futures, submitted,
          completed, consumed, exc, result, order, ran, raised, logged,
          unregd, ALL, objects, returned, last, scope, cm_handlers, stack,
          entered, exited, threads, midreg>>

----
\* Callables

Callable(base, layer, self, has_path) ==
    [base |-> base, layer |-> layer, self |-> self, identifier_path |-> has_path]

\* get_original_func: unwrap partial and __wrapped__ layers
get_original_func(func) == [func EXCEPT !.layer = "plain"]

\* inspect.ismethod
ismethod(func) == func.self # None

\* SignalHandler.__init__; times0 and ncalls record the limit the handler was
\* registered with and how often its callable has run (kept for handlers
\* with a limit)
SignalHandler(func, async, priority, times, identifier, idx) ==
    [ _func |-> get_original_func(func),
      identifier |-> IF ismethod(get_original_func(func)) THEN identifier ELSE None,
      async |-> async,
      priority |-> priority,
      times |-> times,
      idx |-> idx,
      times0 |-> times,
      ncalls |-> 0 ]

----
\* The handler lists

EmptyHandlers == [p \in {PRIORITIES[k] : k \in 1..Len(PRIORITIES)} |-> <<>>]

\* list.remove(x): drop the first occurrence
RECURSIVE list_remove(_, _)
list_remove(l, x) ==
    IF l = <<>> THEN <<>>
    ELSE IF Head(l) = x THEN Tail(l)
    ELSE <<Head(l)>> \o list_remove(Tail(l), x)

\* Signal.remove_handler
remove_handler(hd, H, h) ==
    [hd EXCEPT ![H[h].priority] = list_remove(@, h)]

\* Signal.iter_handlers: chain(*(self.handlers[k] for k in PRIORITIES)) over
\* the live lists. A cursor is the tier k being iterated and the index i of
\* the list iterator in it; chain_next is the cursor of the next element,
\* past the exhausted tiers (k > Len(PRIORITIES): the chain is exhausted).
RECURSIVE chain_next(_, _, _)
chain_next(hd, k, i) ==
    IF k > Len(PRIORITIES) THEN [k |-> k, i |-> 0]
    ELSE IF i < Len(hd[PRIORITIES[k]]) THEN [k |-> k, i |-> i]
    ELSE chain_next(hd, k + 1, 0)

Exhausted(c) == c.k > Len(PRIORITIES)
At(hd, c) == hd[PRIORITIES[c.k]][c.i + 1]

\* every handler of the lists, in list order
RECURSIVE flat_from(_, _)
flat_from(hd, k) ==
    IF k > Len(PRIORITIES) THEN <<>>
    ELSE hd[PRIORITIES[k]] \o flat_from(hd, k + 1)
Flat(hd) == flat_from(hd, 1)
Range(s) == {s[n] : n \in 1..Len(s)}
Members(hd) == Range(Flat(hd))

\* the expiry test of the sweep: handler.times == 0
expired(hrec) == hrec.times = Some(0)

\* (a variant: the sweep leaves the expired handlers in place)
sweep_from_keeping(hd, H, k, i) == hd

\* for handler in self.iter_handlers(): if handler.times == 0:
\*     self.remove_handler(handler)
RECURSIVE sweep_from(_, _, _, _)
sweep_from(hd, H, k, i) ==
    LET c == chain_next(hd, k, i) IN
    IF Exhausted(c) THEN hd
    ELSE IF expired(H[At(hd, c)])
         THEN sweep_from(remove_handler(hd, H, At(hd, c)), H, c.k, c.i + 1)
         ELSE sweep_from(hd, H, c.k, c.i + 1)
sweep(hd, H) == sweep_from(hd, H, 1, 0)

\* the match of Signal.unregister: func in (handler._func,
\* getattr(handler._func, "__wrapped__", None), getattr(handler._func, "func", None));
\* handler._func is unwrapped, so the two attributes are None
unregister_match(func, hrec) == func = hrec._func

\* Signal.unregister: remove the matching handlers met while iterating the
\* live lists
RECURSIVE unregister_from(_, _, _, _, _)
unregister_from(hd, H, func, k, i) ==
    LET c == chain_next(hd, k, i) IN
    IF Exhausted(c) THEN hd
    ELSE IF unregister_match(func, H[At(hd, c)])
         THEN unregister_from(remove_handler(hd, H, At(hd, c)), H, func, c.k, c.i + 1)
         ELSE unregister_from(hd, H, func, c.k, c.i + 1)
unregister(hd, H, func) == unregister_from(hd, H, func, 1, 0)

----
\* The SignalHandler objects still referenced: those of the handler lists
collect(H, hd) == [h \in Members(hd) |-> H[h]]

\* Signal.__new__(cls, name, async, swallow_exceptions) and the state of a
\* module in which no trigger is running
InitWith(asyncs, swallows) ==
    /\ sig \in [async : asyncs, swallow_exceptions : swallows, identifier : {None}]
    /\ handlers = EmptyHandlers
    /\ hs = <<>>
    /\ idx_gen = IdxStart
    /\ pc = "idle"
    /\ kwargs = [target |-> None, swallow_exceptions |-> None]
    /\ it = [k |-> 1, i |-> 0]
    /\ futures = FALSE
    /\ submitted = <<>>
    /\ completed = <<>>
    /\ consumed = 0
    /\ exc = None
    /\ result = None
    /\ order = <<>>
    /\ ran = {}
    /\ raised = {}
    /\ logged = {}
    /\ unregd = {}
    /\ ALL = <<>>
    /\ objects = 0
    /\ returned = [n \in Names |-> {}]
    /\ last = NoCall
    /\ scope = NoScope
    /\ cm_handlers = <<>>
    /\ stack = <<>>
    /\ entered = <<>>
    /\ exited = <<>>
    /\ threads = [t \in TriggerThreads |-> ThreadIdle]
    /\ midreg = {}

\* Signal(name): async=None, swallow_exceptions=False
Init == InitWith({None}, {FALSE})

----
\* What a call gives its caller
Returned == [kind |-> "returned", handler |-> 0]
MissingIdentifier == [kind |-> "MissingIdentifier", handler |-> 0]
AssertionError == [kind |-> "AssertionError", handler |-> 0]
AttributeError == [kind |-> "AttributeError", handler |-> 0]
HandlerError(h) == [kind |-> "HandlerError", handler |-> h]
KeyError(h) == [kind |-> "KeyError", handler |-> h]
BlockError == [kind |-> "BlockError", handler |-> 0]
EnterError(r) == [kind |-> "EnterError", handler |-> r]
ExitError(r) == [kind |-> "ExitError", handler |-> r]

NoKwargs == [target |-> None, swallow_exceptions |-> None]

\* (a variant: no assert against the signal's own setting)
register_async_unchecked(sigasync, async) ==
    IF async = None THEN (IF sigasync = None THEN Some(FALSE) ELSE sigasync)
    ELSE async

\* Signal.register's resolution of the async flag; None when the assert
\* "Signal is set with async=..." fails
register_async(sigasync, async) ==
    IF async = None THEN (IF sigasync = None THEN Some(FALSE) ELSE sigasync)
    ELSE IF sigasync # None /\ sigasync # async THEN None
    ELSE async

\* self.handlers[priority].append(handler)
register_append(l, h) == Append(l, h)

\* Signal.register(func, async, priority, times), called between triggers
Register(func, async, priority, times) ==
    /\ pc = "idle"
    /\ idx_gen - IdxStart < MaxHandlers
    /\ IF register_async(sig.async, async) = None
       THEN /\ result' = Some(AssertionError)
            /\ UNCHANGED <<handlers, hs, idx_gen>>
       ELSE /\ hs' = [h \in DOMAIN hs \cup {idx_gen} |->
                        IF h = idx_gen
                        THEN SignalHandler(func, Val(register_async(sig.async, async)),
                                           priority, times, sig.identifier, idx_gen)
                        ELSE hs[h]]
            /\ handlers' = [handlers EXCEPT ![priority] = register_append(@, idx_gen)]
            /\ idx_gen' = idx_gen + 1
            /\ result' = None
    /\ UNCHANGED <<sig, pc, kwargs, it, futures, submitted, completed, consumed, exc>>
    /\ UNCHANGED histVars
    /\ UNCHANGED regVars
    /\ UNCHANGED scopeVars
    /\ UNCHANGED cmVars
    /\ UNCHANGED raceVars
    /\ UNCHANGED snapVars

\* Signal.unregister(func), called between triggers
Unregister(func) ==
    /\ pc = "idle"
    /\ handlers' = unregister(handlers, hs, func)
    /\ hs' = collect(hs, unregister(handlers, hs, func))
    /\ result' = None
    /\ UNCHANGED <<sig, idx_gen, pc, kwargs, it, futures, submitted, completed,
                   consumed, exc>>
    /\ UNCHANGED histVars
    /\ UNCHANGED regVars
    /\ UNCHANGED scopeVars
    /\ UNCHANGED cmVars
    /\ UNCHANGED raceVars
    /\ UNCHANGED snapVars

\* the client sets signal.identifier, before any handler is registered
SetIdentifier(name) ==
    /\ pc = "idle"
    /\ idx_gen = IdxStart
    /\ sig.identifier = None
    /\ sig' = [sig EXCEPT !.identifier = Some(name)]
    /\ UNCHANGED <<handlers, hs, idx_gen>>
    /\ UNCHANGED frameVars
    /\ UNCHANGED histVars
    /\ UNCHANGED regVars
    /\ UNCHANGED scopeVars
    /\ UNCHANGED cmVars
    /\ UNCHANGED raceVars
    /\ UNCHANGED snapVars

----
\* Signal.__call__

\* (a variant: the check is dropped when exceptions are swallowed)
missing_identifier_unless_swallowed(s, kw) ==
    /\ s.identifier # None
    /\ kw.target = None
    /\ kw.swallow_exceptions # Some(TRUE)
    /\ ~(kw.swallow_exceptions = None /\ s.swallow_exceptions)

\* the identifier check: self.identifier is set and is not in kwargs
missing_identifier(s, kw) == s.identifier # None /\ kw.target = None

\* kwargs.setdefault('swallow_exceptions', self.swallow_exceptions)
setdefault_swallow(s, kw) ==
    [kw EXCEPT !.swallow_exceptions = IF @ = None THEN Some(s.swallow_exceptions) ELSE @]

\* (a variant: the executor is never entered)
any_async_never(hd, H) == FALSE

\* any(h.async for h in self.iter_handlers())
any_async(hd, H) == \E h \in Members(hd) : H[h].async

\* The call up to the dispatch loop: the identifier check, the expiry sweep,
\* the swallow_exceptions default and the executor
Trigger(kw) ==
    /\ pc = "idle"
    /\ IF missing_identifier(sig, kw)
       THEN /\ pc' = "done"
            /\ result' = Some(MissingIdentifier)
            /\ kwargs' = kw
            /\ UNCHANGED <<handlers, hs, futures>>
       ELSE /\ pc' = "dispatch"
            /\ result' = None
            /\ handlers' = sweep(handlers, hs)
            /\ hs' = collect(hs, sweep(handlers, hs))
            /\ kwargs' = setdefault_swallow(sig, kw)
            /\ futures' = any_async(sweep(handlers, hs), hs)
    /\ it' = [k |-> 1, i |-> 0]
    /\ UNCHANGED <<sig, idx_gen, submitted, completed, consumed, exc>>
    /\ UNCHANGED <<order, ran, raised, logged, unregd>>
    /\ UNCHANGED regVars
    /\ UNCHANGED scopeVars
    /\ UNCHANGED cmVars
    /\ UNCHANGED raceVars
    /\ UNCHANGED snapVars

\* SignalHandler.__call__: the value compared with the trigger's target
handler_object(hrec, kw) ==
    IF hrec._func.identifier_path
    THEN Val(Objects[Val(hrec._func.self)].path)
    ELSE IF Objects[Val(hrec._func.self)].attr # None
    THEN Val(Objects[Val(hrec._func.self)].attr)
    ELSE IF Objects[Val(hrec._func.self)].cls = ClassOf(Val(kw.target))
    THEN Val(hrec._func.self)
    ELSE PyNone

\* SignalHandler.__call__: handler_object is not None and
\* handler_object != target_object
identity_differs(hrec, kw) ==
    /\ hrec.identifier # None
    /\ handler_object(hrec, kw) # PyNone
    /\ handler_object(hrec, kw) # Val(kw.target)

\* (a variant: no test of self.times)
returns_early_unlimited(hrec, kw) == identity_differs(hrec, kw)

\* SignalHandler.__call__ returns without calling self.func
returns_early(hrec, kw) ==
    \/ hrec.times = Some(0)
    \/ identity_differs(hrec, kw)

\* if self.times is not None: self.times -= 1
use_times(hrec) ==
    IF hrec.times # None
    THEN [hrec EXCEPT !.times = Some(Val(@) - 1), !.ncalls = @ + 1]
    ELSE hrec

\* (a variant: the failure is always re-raised)
reraises_always(fails, swallow) == fails

\* the except clause: a failure is re-raised unless swallow_exceptions
reraises(fails, swallow) == fails /\ ~swallow

\* _logger.silent_exception("Exception in (%s) ignored", self)
logs_ignored(fails, swallow) == fails /\ swallow

Swallow == Val(kwargs.swallow_exceptions)

\* One iteration of the dispatch loop on a synchronous handler: the call
\* of SignalHandler.__call__ and of the callable, which may unregister a
\* function from this signal (eff) and may raise (fails)
CallSync(eff, fails) ==
    /\ pc = "dispatch"
    /\ ~Exhausted(chain_next(handlers, it.k, it.i))
    /\ LET c == chain_next(handlers, it.k, it.i)
           h == At(handlers, c)
           H2 == [hs EXCEPT ![h] = use_times(@)]
           hd2 == IF eff = None THEN handlers ELSE unregister(handlers, H2, Val(eff))
       IN  /\ ~hs[h].async
           /\ it' = [k |-> c.k, i |-> c.i + 1]
           /\ order' = Append(order, h)
           /\ IF returns_early(hs[h], kwargs)
              THEN /\ eff = None
                   /\ ~fails
                   /\ UNCHANGED <<hs, handlers, ran, raised, logged, unregd, pc, exc>>
              ELSE /\ hs' = H2
                   /\ handlers' = hd2
                   /\ unregd' = unregd \cup (Members(handlers) \ Members(hd2))
                   /\ ran' = ran \cup {h}
                   /\ raised' = IF fails THEN raised \cup {h} ELSE raised
                   /\ logged' = IF logs_ignored(fails, Swallow) THEN logged \cup {h} ELSE logged
                   /\ IF reraises(fails, Swallow)
                      THEN exc' = Some(HandlerError(h)) /\ pc' = "unwind"
                      ELSE UNCHANGED <<pc, exc>>
    /\ UNCHANGED <<sig, idx_gen, kwargs, futures, submitted, completed, consumed,
                   result>>
    /\ UNCHANGED regVars
    /\ UNCHANGED scopeVars
    /\ UNCHANGED cmVars
    /\ UNCHANGED raceVars
    /\ UNCHANGED snapVars

\* One iteration of the dispatch loop on a synchronous handler whose
\* callable registers a handler on this signal and returns
CallSyncRegistering(func, async, priority, times) ==
    /\ pc = "dispatch"
    /\ idx_gen - IdxStart < MaxHandlers
    /\ register_async(sig.async, async) # None
    /\ ~Exhausted(chain_next(handlers, it.k, it.i))
    /\ LET c == chain_next(handlers, it.k, it.i)
           h == At(handlers, c)
       IN  /\ ~hs[h].async
           /\ ~returns_early(hs[h], kwargs)
           /\ it' = [k |-> c.k, i |-> c.i + 1]
           /\ order' = Append(order, h)
           /\ ran' = ran \cup {h}
           /\ hs' = [g \in DOMAIN hs \cup {idx_gen} |->
                       IF g = idx_gen
                       THEN SignalHandler(func, Val(register_async(sig.async, async)),
                                          priority, times, sig.identifier, idx_gen)
                       ELSE IF g = h THEN use_times(hs[h])
                       ELSE hs[g]]
           /\ handlers' = [handlers EXCEPT ![priority] = register_append(@, idx_gen)]
           /\ idx_gen' = idx_gen + 1
           /\ midreg' = midreg \cup {idx_gen}
    /\ UNCHANGED <<sig, pc, kwargs, futures, submitted, completed, consumed, exc, result>>
    /\ UNCHANGED <<raised, logged, unregd>>
    /\ UNCHANGED regVars
    /\ UNCHANGED scopeVars
    /\ UNCHANGED cmVars
    /\ UNCHANGED raceVars

\* (a variant: the task is not handed to the executor)
futures_submit_dropped(sub, h) == sub

\* futures.submit(handler, **kwargs)
futures_submit(sub, h) == Append(sub, h)

\* One iteration of the dispatch loop on an asynchronous handler
Submit ==
    /\ pc = "dispatch"
    /\ ~Exhausted(chain_next(handlers, it.k, it.i))
    /\ LET c == chain_next(handlers, it.k, it.i)
           h == At(handlers, c)
       IN  /\ hs[h].async
           /\ it' = [k |-> c.k, i |-> c.i + 1]
           /\ order' = Append(order, h)
           /\ IF futures
              THEN /\ submitted' = futures_submit(submitted, h)
                   /\ UNCHANGED <<pc, exc>>
              ELSE /\ exc' = Some(AttributeError)
                   /\ pc' = "unwind"
                   /\ UNCHANGED submitted
    /\ UNCHANGED <<sig, handlers, hs, idx_gen, kwargs, futures, completed, consumed, result>>
    /\ UNCHANGED <<ran, raised, logged, unregd>>
    /\ UNCHANGED regVars
    /\ UNCHANGED scopeVars
    /\ UNCHANGED cmVars
    /\ UNCHANGED raceVars
    /\ UNCHANGED snapVars

\* The dispatch loop ends: with an executor the as_completed loop follows,
\* without one the ExitStack exits and the call returns
LoopEnd ==
    /\ pc = "dispatch"
    /\ Exhausted(chain_next(handlers, it.k, it.i))
    /\ it' = chain_next(handlers, it.k, it.i)
    /\ IF futures
       THEN pc' = "wait" /\ UNCHANGED result
       ELSE pc' = "done" /\ result' = Some(Returned)
    /\ UNCHANGED <<sig, handlers, hs, idx_gen, kwargs, futures, submitted, completed,
                   consumed, exc>>
    /\ UNCHANGED histVars
    /\ UNCHANGED regVars
    /\ UNCHANGED scopeVars
    /\ UNCHANGED cmVars
    /\ UNCHANGED raceVars
    /\ UNCHANGED snapVars

Pending == Range(submitted) \ Range(completed)

\* the executor logs the failure of a task
executor_logs(lg, h) == lg \cup {h}

\* A worker of the executor runs a submitted handler: SignalHandler.__call__
AsyncRun(h, fails) ==
    /\ pc \in {"dispatch", "wait", "unwind"}
    /\ h \in Pending
    /\ completed' = Append(completed, h)
    /\ IF returns_early(hs[h], kwargs)
       THEN /\ ~fails
            /\ UNCHANGED <<hs, ran, raised, logged>>
       ELSE /\ hs' = [hs EXCEPT ![h] = use_times(@)]
            /\ ran' = ran \cup {h}
            /\ raised' = IF fails THEN raised \cup {h} ELSE raised
            /\ logged' = IF logs_ignored(fails, Swallow) THEN logged \cup {h}
                         ELSE IF reraises(fails, Swallow) THEN executor_logs(logged, h)
                         ELSE logged
    /\ UNCHANGED <<sig, handlers, idx_gen, pc, kwargs, it, futures, submitted, consumed,
                   exc, result>>
    /\ UNCHANGED <<order, unregd>>
    /\ UNCHANGED regVars
    /\ UNCHANGED scopeVars
    /\ UNCHANGED cmVars
    /\ UNCHANGED raceVars
    /\ UNCHANGED snapVars

\* (a variant: future.result() is not asked for the exception)
future_failed_ignored(h) == FALSE

\* the future of handler h holds an exception
future_failed(h) == reraises(h \in raised, Swallow)

\* for future in futures.as_completed(): future.result()
FutureResult ==
    /\ pc = "wait"
    /\ consumed < Len(completed)
    /\ IF future_failed(completed[consumed + 1])
       THEN /\ exc' = Some(HandlerError(completed[consumed + 1]))
            /\ pc' = "unwind"
            /\ UNCHANGED consumed
       ELSE /\ consumed' = consumed + 1
            /\ UNCHANGED <<pc, exc>>
    /\ UNCHANGED <<sig, handlers, hs, idx_gen, kwargs, it, futures, submitted, completed,
                   result>>
    /\ UNCHANGED histVars
    /\ UNCHANGED regVars
    /\ UNCHANGED scopeVars
    /\ UNCHANGED cmVars
    /\ UNCHANGED raceVars
    /\ UNCHANGED snapVars

\* as_completed has yielded every future
WaitEnd ==
    /\ pc = "wait"
    /\ consumed = Len(submitted)
    /\ pc' = "unwind"
    /\ UNCHANGED <<sig, handlers, hs, idx_gen, kwargs, it, futures, submitted, completed,
                   consumed, exc, result>>
    /\ UNCHANGED histVars
    /\ UNCHANGED regVars
    /\ UNCHANGED scopeVars
    /\ UNCHANGED cmVars
    /\ UNCHANGED raceVars
    /\ UNCHANGED snapVars

\* the executor's exit waits for the tasks still running
executor_exit_ready(sub, comp) == Range(sub) \subseteq Range(comp)

\* The ExitStack exits and the call returns or raises
Exit ==
    /\ pc = "unwind"
    /\ executor_exit_ready(submitted, completed)
    /\ pc' = "done"
    /\ result' = IF exc = None THEN Some(Returned) ELSE exc
    /\ UNCHANGED <<sig, handlers, hs, idx_gen, kwargs, it, futures, submitted, completed,
                   consumed, exc>>
    /\ UNCHANGED histVars
    /\ UNCHANGED regVars
    /\ UNCHANGED scopeVars
    /\ UNCHANGED cmVars
    /\ UNCHANGED raceVars
    /\ UNCHANGED snapVars

\* The caller has the result; the signal is idle again
Return ==
    /\ pc = "done"
    /\ pc' = "idle"
    /\ kwargs' = NoKwargs
    /\ it' = [k |-> 1, i |-> 0]
    /\ futures' = FALSE
    /\ submitted' = <<>>
    /\ completed' = <<>>
    /\ consumed' = 0
    /\ exc' = None
    /\ result' = None
    /\ order' = <<>>
    /\ ran' = {}
    /\ raised' = {}
    /\ logged' = {}
    /\ unregd' = {}
    /\ midreg' = {}
    /\ hs' = collect(hs, handlers)
    /\ UNCHANGED <<sig, handlers, idx_gen>>
    /\ UNCHANGED regVars
    /\ UNCHANGED scopeVars
    /\ UNCHANGED cmVars
    /\ UNCHANGED raceVars

----
\* The registry: Signal.ALL and the module's functions that look signals up
\* by name

MaxObjects == 3

OtherSignalVars == <<sig, handlers>>

\* the SignalHandler objects referenced from the lists of the stored signals
collect_all(H, all) ==
    [h \in UNION {Members(all[n].handlers) : n \in DOMAIN all} |-> H[h]]

\* object.__new__(cls) and the attributes Signal.__new__ gives it
new_signal(cls, name, async, swallow, oid) ==
    [ oid |-> oid,
      cls |-> cls,
      name |-> name,
      handlers |-> EmptyHandlers,
      swallow_exceptions |-> swallow,
      async |-> async,
      identifier |-> None ]

\* (a variant: the new object is not stored)
ALL_setdefault_dropped(all, name, signal) == all

\* cls.ALL.setdefault(name, signal): the mapping after it, and its value
ALL_setdefault(all, name, signal) ==
    IF name \in DOMAIN all THEN all
    ELSE [n \in DOMAIN all \cup {name} |-> IF n = name THEN signal ELSE all[n]]
setdefault_value(all, name, signal) ==
    IF name \in DOMAIN all THEN all[name] ELSE signal

\* Signal.__new__(cls, name, async, swallow_exceptions): the registry and the
\* object count after it, the object it returns (ret, 0 for none) and the
\* exception it raises
Signal__new__(all, n, cls, name, async, swallow, thread) ==
    IF name \in DOMAIN all
    THEN [ALL |-> all, objects |-> n, ret |-> all[name].oid, exc |-> ""]
    ELSE IF thread # "MainThread"
    THEN [ALL |-> all, objects |-> n, ret |-> 0, exc |-> "AssertionError"]
    ELSE [ALL |-> ALL_setdefault(all, name, new_signal(cls, name, async, swallow, n + 1)),
          objects |-> n + 1,
          ret |-> setdefault_value(all, name,
                                   new_signal(cls, name, async, swallow, n + 1)).oid,
          exc |-> ""]

\* the lookups of a name that returned an object
record_returned(rt, name, r) ==
    IF r.exc = "" THEN [rt EXCEPT ![name] = @ \cup {r.ret}] ELSE rt

\* the object a lookup returned is the one stored under the name
Stored(r, name) == name \in DOMAIN r.ALL /\ r.ALL[name].oid = r.ret

\* Signal(name, ...) or ContextManagerSignal(name, ...), called by a client
NewSignal(cls, name, async, swallow, thread) ==
    /\ pc = "idle"
    /\ objects < MaxObjects
    /\ LET r == Signal__new__(ALL, objects, cls, name, async, swallow, thread)
       IN  /\ ALL' = r.ALL
           /\ objects' = r.objects
           /\ returned' = record_returned(returned, name, r)
           /\ last' = [op |-> "Signal", name |-> name, ret |-> r.ret, exc |-> r.exc]
    /\ UNCHANGED <<hs, idx_gen>>
    /\ UNCHANGED OtherSignalVars
    /\ UNCHANGED frameVars
    /\ UNCHANGED histVars
    /\ UNCHANGED scopeVars
    /\ UNCHANGED cmVars
    /\ UNCHANGED raceVars
    /\ UNCHANGED snapVars

\* register_signal(name, func, **kwargs): Signal(name).register(func, **kwargs)
register_signal(name, func, async, priority, times, thread) ==
    /\ pc = "idle"
    /\ objects < MaxObjects
    /\ idx_gen - IdxStart < MaxHandlers
    /\ LET r == Signal__new__(ALL, objects, "Signal", name, None, FALSE, thread)
           flag == IF r.exc = "" /\ Stored(r, name)
                   THEN register_async(r.ALL[name].async, async) ELSE None
       IN  /\ objects' = r.objects
           /\ returned' = record_returned(returned, name, r)
           /\ IF r.exc # "" \/ ~Stored(r, name)
              THEN /\ ALL' = r.ALL
                   /\ last' = [op |-> "register_signal", name |-> name, ret |-> r.ret,
                               exc |-> r.exc]
                   /\ UNCHANGED <<hs, idx_gen>>
              ELSE IF flag = None
              THEN /\ ALL' = r.ALL
                   /\ last' = [op |-> "register_signal", name |-> name, ret |-> r.ret,
                               exc |-> "AssertionError"]
                   /\ UNCHANGED <<hs, idx_gen>>
              ELSE /\ ALL' = [r.ALL EXCEPT ![name].handlers[priority] =
                                               register_append(@, idx_gen)]
                   /\ hs' = [h \in DOMAIN hs \cup {idx_gen} |->
                               IF h = idx_gen
                               THEN SignalHandler(func, Val(flag), priority, times,
                                                  r.ALL[name].identifier, idx_gen)
                               ELSE hs[h]]
                   /\ idx_gen' = idx_gen + 1
                   /\ last' = [op |-> "register_signal", name |-> name, ret |-> r.ret,
                               exc |-> ""]
    /\ UNCHANGED OtherSignalVars
    /\ UNCHANGED frameVars
    /\ UNCHANGED histVars
    /\ UNCHANGED scopeVars
    /\ UNCHANGED cmVars
    /\ UNCHANGED raceVars
    /\ UNCHANGED snapVars

\* unregister_signal(name, func): no signal is made for an unknown name
unregister_signal(name, func) ==
    /\ pc = "idle"
    /\ IF name \notin DOMAIN ALL
       THEN /\ UNCHANGED <<ALL, hs>>
            /\ last' = [op |-> "unregister_signal", name |-> name, ret |-> 0, exc |-> ""]
       ELSE /\ ALL' = [ALL EXCEPT ![name].handlers = unregister(@, hs, func)]
            /\ hs' = collect_all(hs, [ALL EXCEPT ![name].handlers = unregister(@, hs, func)])
            /\ last' = [op |-> "unregister_signal", name |-> name, ret |-> ALL[name].oid,
                        exc |-> ""]
    /\ UNCHANGED <<idx_gen, objects, returned>>
    /\ UNCHANGED OtherSignalVars
    /\ UNCHANGED frameVars
    /\ UNCHANGED histVars
    /\ UNCHANGED scopeVars
    /\ UNCHANGED cmVars
    /\ UNCHANGED raceVars
    /\ UNCHANGED snapVars

\* self.times -= 1 in each of the handlers a trigger's loop went through
\* whose SignalHandler.__call__ did not return early
RECURSIVE use_all(_, _)
use_all(H, s) ==
    IF s = <<>> THEN H
    ELSE use_all([H EXCEPT ![Head(s)] = IF returns_early(@, NoKwargs) THEN @
                                        ELSE use_times(@)],
                 Tail(s))

\* call_signal(name, **kwargs): Signal(name)(**kwargs). The trigger of a
\* Signal sweeps its lists and goes through the first n handlers: all of
\* them, or those up to a synchronous handler that raises. Calling a
\* ContextManagerSignal makes a context manager that nobody enters.
call_signal(name, n, thread) ==
    /\ pc = "idle"
    /\ objects < MaxObjects
    /\ LET r == Signal__new__(ALL, objects, "Signal", name, None, FALSE, thread)
           swept == sweep(r.ALL[name].handlers, hs)
           all2 == [r.ALL EXCEPT ![name].handlers = swept]
       IN  /\ objects' = r.objects
           /\ returned' = record_returned(returned, name, r)
           /\ IF r.exc # "" \/ ~Stored(r, name) \/ r.ALL[name].cls = "ContextManagerSignal"
              THEN /\ n = 0
                   /\ ALL' = r.ALL
                   /\ last' = [op |-> "call_signal", name |-> name, ret |-> r.ret,
                               exc |-> r.exc]
                   /\ UNCHANGED hs
              ELSE /\ n \in 0..Len(Flat(swept))
                   /\ n < Len(Flat(swept)) =>
                         /\ n >= 1
                         /\ ~hs[Flat(swept)[n]].async
                         /\ ~returns_early(hs[Flat(swept)[n]], NoKwargs)
                   /\ ALL' = all2
                   /\ hs' = use_all(collect_all(hs, all2), SubSeq(Flat(swept), 1, n))
                   /\ last' = [op |-> "call_signal", name |-> name, ret |-> r.ret,
                               exc |-> IF n < Len(Flat(swept)) THEN "HandlerError" ELSE ""]
    /\ UNCHANGED idx_gen
    /\ UNCHANGED OtherSignalVars
    /\ UNCHANGED frameVars
    /\ UNCHANGED histVars
    /\ UNCHANGED scopeVars
    /\ UNCHANGED cmVars
    /\ UNCHANGED raceVars
    /\ UNCHANGED snapVars

----
\* Signal.registered

\* with signal.registered(func, **kwargs): the entry, self.register(func,
\* **kwargs); h is the handler it makes and before tells whether the
\* function had a handler already
RegisteredEnter(func, async, priority, times) ==
    /\ pc = "idle"
    /\ ~scope.open
    /\ idx_gen - IdxStart < MaxHandlers
    /\ IF register_async(sig.async, async) = None
       THEN /\ result' = Some(AssertionError)
            /\ UNCHANGED <<handlers, hs, idx_gen, scope>>
       ELSE /\ hs' = [h \in DOMAIN hs \cup {idx_gen} |->
                        IF h = idx_gen
                        THEN SignalHandler(func, Val(register_async(sig.async, async)),
                                           priority, times, sig.identifier, idx_gen)
                        ELSE hs[h]]
            /\ handlers' = [handlers EXCEPT ![priority] = register_append(@, idx_gen)]
            /\ idx_gen' = idx_gen + 1
            /\ result' = None
            /\ scope' = [open |-> TRUE, func |-> Some(func), h |-> idx_gen,
                         before |-> \E h \in Members(handlers) :
                                        hs[h]._func = get_original_func(func)]
    /\ UNCHANGED <<sig, pc, kwargs, it, futures, submitted, completed, consumed, exc>>
    /\ UNCHANGED histVars
    /\ UNCHANGED regVars
    /\ UNCHANGED cmVars
    /\ UNCHANGED raceVars
    /\ UNCHANGED snapVars

\* The block of the with statement ends, by returning or by raising, and
\* the finally clause runs self.unregister(func)
RegisteredExit(raises) ==
    /\ pc = "idle"
    /\ scope.open
    /\ handlers' = unregister(handlers, hs, Val(scope.func))
    /\ hs' = collect(hs, unregister(handlers, hs, Val(scope.func)))
    /\ result' = IF raises THEN Some(BlockError) ELSE None
    /\ scope' = [scope EXCEPT !.open = FALSE]
    /\ UNCHANGED <<sig, idx_gen, pc, kwargs, it, futures, submitted, completed,
                   consumed, exc>>
    /\ UNCHANGED histVars
    /\ UNCHANGED regVars
    /\ UNCHANGED cmVars
    /\ UNCHANGED raceVars
    /\ UNCHANGED snapVars

----
\* ContextManagerSignal.__call__

\* kwargs_resilient(func): a new callable around func
kwargs_resilient(func) == [func EXCEPT !.layer = "resilient"]

\* handler.func, the resilient callable (around the handler's function)
handler_func(hrec) == kwargs_resilient(hrec._func)

\* for handler in self.iter_handlers(): if handler.times == 0:
\*     self.unregister(handler.func)
RECURSIVE ctx_sweep_from(_, _, _, _)
ctx_sweep_from(hd, H, k, i) ==
    LET c == chain_next(hd, k, i) IN
    IF Exhausted(c) THEN hd
    ELSE IF expired(H[At(hd, c)])
         THEN ctx_sweep_from(unregister(hd, H, handler_func(H[At(hd, c)])), H, c.k, c.i + 1)
         ELSE ctx_sweep_from(hd, H, c.k, c.i + 1)
ctx_sweep(hd, H) == ctx_sweep_from(hd, H, 1, 0)

\* the lists async_handlers and handlers the enumerate loop builds
RECURSIVE select_async(_, _, _)
select_async(s, H, async) ==
    IF s = <<>> THEN <<>>
    ELSE IF H[Head(s)].async = async
         THEN <<Head(s)>> \o select_async(Tail(s), H, async)
         ELSE select_async(Tail(s), H, async)

\* target_object = kwargs[self.identifier] with the key missing
key_error(hrec, kw) ==
    hrec.times # Some(0) /\ hrec.identifier # None /\ kw.target = None

\* the exception a handler's call raised
handler_exception(H, kw, h) ==
    IF key_error(H[h], kw) THEN KeyError(h) ELSE HandlerError(h)

\* The call up to the handlers: the sweep, the swallow_exceptions default
\* and the two lists. The asynchronous handlers are called first, as one
\* group; the group is resource 0 of the stack and a synchronous handler's
\* context manager is the resource of the handler's idx.
CtxTrigger(kw) ==
    /\ pc = "idle"
    /\ handlers' = ctx_sweep(handlers, hs)
    /\ hs' = collect(hs, ctx_sweep(handlers, hs))
    /\ kwargs' = setdefault_swallow(sig, kw)
    /\ submitted' = select_async(Flat(ctx_sweep(handlers, hs)), hs, TRUE)
    /\ cm_handlers' = select_async(Flat(ctx_sweep(handlers, hs)), hs, FALSE)
    /\ pc' = IF select_async(Flat(ctx_sweep(handlers, hs)), hs, TRUE) # <<>>
             THEN "cm_async" ELSE "cm_sync"
    /\ it' = [k |-> 1, i |-> 0]
    /\ stack' = <<>>
    /\ entered' = <<>>
    /\ exited' = <<>>
    /\ result' = None
    /\ UNCHANGED <<sig, idx_gen, futures, completed, consumed, exc>>
    /\ UNCHANGED histVars
    /\ UNCHANGED regVars
    /\ UNCHANGED scopeVars
    /\ UNCHANGED raceVars
    /\ UNCHANGED snapVars

\* async_handlers(**kwargs): the group calls one of its handlers
CtxAsyncRun(h, fails) ==
    /\ pc = "cm_async"
    /\ h \in Pending
    /\ completed' = Append(completed, h)
    /\ order' = Append(order, h)
    /\ IF key_error(hs[h], kwargs)
       THEN /\ fails
            /\ raised' = raised \cup {h}
            /\ UNCHANGED <<hs, ran, logged>>
       ELSE IF returns_early(hs[h], kwargs)
       THEN /\ ~fails
            /\ UNCHANGED <<hs, ran, raised, logged>>
       ELSE /\ hs' = [hs EXCEPT ![h] = use_times(@)]
            /\ ran' = ran \cup {h}
            /\ raised' = IF fails THEN raised \cup {h} ELSE raised
            /\ logged' = IF logs_ignored(fails, Swallow) THEN logged \cup {h} ELSE logged
    /\ UNCHANGED <<sig, handlers, idx_gen, pc, kwargs, it, futures, submitted, consumed,
                   exc, result, unregd>>
    /\ UNCHANGED regVars
    /\ UNCHANGED scopeVars
    /\ UNCHANGED cmVars
    /\ UNCHANGED raceVars
    /\ UNCHANGED snapVars

\* the handlers of the group whose call raised
GroupFailed ==
    {h \in Range(submitted) : h \in raised /\ (key_error(hs[h], kwargs) \/ ~Swallow)}

\* handlers_stack.enter_context(async_handlers(**kwargs)): every handler of
\* the group has returned or raised
CtxAsyncEnter ==
    /\ pc = "cm_async"
    /\ Pending = {}
    /\ IF GroupFailed # {}
       THEN /\ \E h \in GroupFailed : exc' = Some(handler_exception(hs, kwargs, h))
            /\ pc' = "cm_exit"
            /\ UNCHANGED <<stack, entered>>
       ELSE /\ stack' = Append(stack, 0)
            /\ entered' = Append(entered, 0)
            /\ pc' = "cm_sync"
            /\ UNCHANGED exc
    /\ UNCHANGED <<sig, handlers, hs, idx_gen, kwargs, it, futures, submitted, completed,
                   consumed, result, cm_handlers, exited>>
    /\ UNCHANGED histVars
    /\ UNCHANGED regVars
    /\ UNCHANGED scopeVars
    /\ UNCHANGED raceVars
    /\ UNCHANGED snapVars

\* for handler in handlers: res = handler(**kwargs); if res:
\*     handlers_stack.enter_context(res)
\* The callable returns nothing (res "none") or a context manager, whose
\* __enter__ returns ("cm") or raises ("enter_fails"), or it raises (fails).
CtxCallSync(res, fails) ==
    /\ pc = "cm_sync"
    /\ it.i < Len(cm_handlers)
    /\ LET h == cm_handlers[it.i + 1]
       IN  /\ it' = [it EXCEPT !.i = @ + 1]
           /\ order' = Append(order, h)
           /\ IF key_error(hs[h], kwargs)
              THEN /\ fails /\ res = "none"
                   /\ raised' = raised \cup {h}
                   /\ exc' = Some(KeyError(h))
                   /\ pc' = "cm_exit"
                   /\ UNCHANGED <<hs, ran, logged, stack, entered>>
              ELSE IF returns_early(hs[h], kwargs)
              THEN /\ ~fails /\ res = "none"
                   /\ UNCHANGED <<hs, ran, raised, logged, stack, entered, exc, pc>>
              ELSE /\ hs' = [hs EXCEPT ![h] = use_times(@)]
                   /\ ran' = ran \cup {h}
                   /\ raised' = IF fails THEN raised \cup {h} ELSE raised
                   /\ logged' = IF logs_ignored(fails, Swallow) THEN logged \cup {h}
                                ELSE logged
                   /\ fails => res = "none"
                   /\ IF reraises(fails, Swallow)
                      THEN /\ exc' = Some(HandlerError(h))
                           /\ pc' = "cm_exit"
                           /\ UNCHANGED <<stack, entered>>
                      ELSE IF res = "enter_fails"
                      THEN /\ exc' = Some(EnterError(h))
                           /\ pc' = "cm_exit"
                           /\ UNCHANGED <<stack, entered>>
                      ELSE IF res = "cm"
                      THEN /\ stack' = Append(stack, h)
                           /\ entered' = Append(entered, h)
                           /\ UNCHANGED <<exc, pc>>
                      ELSE UNCHANGED <<stack, entered, exc, pc>>
    /\ UNCHANGED <<sig, handlers, idx_gen, kwargs, futures, submitted, completed,
                   consumed, result, unregd, cm_handlers, exited>>
    /\ UNCHANGED regVars
    /\ UNCHANGED scopeVars
    /\ UNCHANGED raceVars
    /\ UNCHANGED snapVars

\* yield: the caller's with block begins
CtxYield ==
    /\ pc = "cm_sync"
    /\ it.i = Len(cm_handlers)
    /\ pc' = "block"
    /\ UNCHANGED <<sig, handlers, hs, idx_gen, kwargs, it, futures, submitted, completed,
                   consumed, exc, result>>
    /\ UNCHANGED histVars
    /\ UNCHANGED regVars
    /\ UNCHANGED scopeVars
    /\ UNCHANGED cmVars
    /\ UNCHANGED raceVars
    /\ UNCHANGED snapVars

\* The caller's block ends, by returning or by raising
CtxBlockEnd(raises) ==
    /\ pc = "block"
    /\ pc' = "cm_exit"
    /\ exc' = IF raises THEN Some(BlockError) ELSE None
    /\ UNCHANGED <<sig, handlers, hs, idx_gen, kwargs, it, futures, submitted, completed,
                   consumed, result>>
    /\ UNCHANGED histVars
    /\ UNCHANGED regVars
    /\ UNCHANGED scopeVars
    /\ UNCHANGED cmVars
    /\ UNCHANGED raceVars
    /\ UNCHANGED snapVars

\* (a variant: the resource entered first is exited first)
ExitStack_next_first(st) == 1

\* with ExitStack() as handlers_stack: the exit takes the resource entered
\* last
ExitStack_next(st) == Len(st)

\* The ExitStack exits one resource, whose __exit__ returns or raises
CtxExitOne(exit_raises) ==
    /\ pc = "cm_exit"
    /\ stack # <<>>
    /\ LET n == ExitStack_next(stack)
       IN  /\ exited' = Append(exited, stack[n])
           /\ stack' = SubSeq(stack, 1, n - 1) \o SubSeq(stack, n + 1, Len(stack))
           /\ exc' = IF exit_raises THEN Some(ExitError(stack[n])) ELSE exc
    /\ UNCHANGED <<sig, handlers, hs, idx_gen, pc, kwargs, it, futures, submitted,
                   completed, consumed, result, cm_handlers, entered>>
    /\ UNCHANGED histVars
    /\ UNCHANGED regVars
    /\ UNCHANGED scopeVars
    /\ UNCHANGED raceVars
    /\ UNCHANGED snapVars

\* The ExitStack has exited every resource: the context manager's __enter__
\* or __exit__ returns or raises
CtxExitEnd ==
    /\ pc = "cm_exit"
    /\ stack = <<>>
    /\ pc' = "done"
    /\ result' = IF exc = None THEN Some(Returned) ELSE exc
    /\ UNCHANGED <<sig, handlers, hs, idx_gen, kwargs, it, futures, submitted, completed,
                   consumed, exc>>
    /\ UNCHANGED histVars
    /\ UNCHANGED regVars
    /\ UNCHANGED scopeVars
    /\ UNCHANGED cmVars
    /\ UNCHANGED raceVars
    /\ UNCHANGED snapVars

----
\* Threads that call the signal concurrently. Each thread has its own
\* iterators and locals; the handler lists and the SignalHandler objects
\* are shared. A thread's steps are the sweep, the fetch of the next handler
\* by the dispatch loop and, in SignalHandler.__call__, the test of
\* self.times, the read of self.times and the write of self.times - 1
\* followed by the call.

\* the handlers the threads hold a reference to
Held(th) == {th[t].h : t \in {u \in DOMAIN th : th[u].pc \in {"check", "load", "store"}}}

\* Bound of the model: no trigger begins once a budget is this far below zero
MaxOvercalls == 2

\* Signal.__call__ up to the dispatch loop, in thread t
ThreadTrigger(t) ==
    /\ pc = "idle"
    /\ threads[t].pc = "idle"
    /\ \A h \in DOMAIN hs : hs[h].times # None => Val(hs[h].times) > 0 - MaxOvercalls
    /\ handlers' = sweep(handlers, hs)
    /\ hs' = [h \in Members(sweep(handlers, hs)) \cup Held(threads) |-> hs[h]]
    /\ threads' = [threads EXCEPT ![t] = [ThreadIdle EXCEPT !.pc = "loop"]]
    /\ UNCHANGED <<sig, idx_gen>>
    /\ UNCHANGED frameVars
    /\ UNCHANGED histVars
    /\ UNCHANGED regVars
    /\ UNCHANGED scopeVars
    /\ UNCHANGED cmVars
    /\ UNCHANGED snapVars

\* for handler in self.iter_handlers(): the next handler, or the end of the
\* loop and of the call
ThreadNext(t) ==
    /\ threads[t].pc = "loop"
    /\ LET c == chain_next(handlers, threads[t].k, threads[t].i)
       IN  threads' = [threads EXCEPT ![t] =
                          IF Exhausted(c) THEN ThreadIdle
                          ELSE [pc |-> "check", k |-> c.k, i |-> c.i + 1,
                                h |-> At(handlers, c), times |-> 0]]
    /\ hs' = [h \in Members(handlers) \cup Held(threads') |-> hs[h]]
    /\ UNCHANGED <<sig, handlers, idx_gen>>
    /\ UNCHANGED frameVars
    /\ UNCHANGED histVars
    /\ UNCHANGED regVars
    /\ UNCHANGED scopeVars
    /\ UNCHANGED cmVars
    /\ UNCHANGED snapVars

\* if self.times == 0: return
ThreadCheck(t) ==
    /\ threads[t].pc = "check"
    /\ threads' = [threads EXCEPT ![t].pc =
                      IF hs[threads[t].h].times = Some(0) THEN "loop" ELSE "load"]
    /\ hs' = [h \in Members(handlers) \cup Held(threads') |-> hs[h]]
    /\ UNCHANGED <<sig, handlers, idx_gen>>
    /\ UNCHANGED frameVars
    /\ UNCHANGED histVars
    /\ UNCHANGED regVars
    /\ UNCHANGED scopeVars
    /\ UNCHANGED cmVars
    /\ UNCHANGED snapVars

\* if self.times is not None: the read of self.times in self.times -= 1;
\* a handler without a limit is called
ThreadLoad(t) ==
    /\ threads[t].pc = "load"
    /\ threads' = [threads EXCEPT ![t] =
                      IF hs[threads[t].h].times = None THEN [@ EXCEPT !.pc = "loop"]
                      ELSE [@ EXCEPT !.pc = "store",
                                     !.times = Val(hs[threads[t].h].times)]]
    /\ hs' = [h \in Members(handlers) \cup Held(threads') |-> hs[h]]
    /\ UNCHANGED <<sig, handlers, idx_gen>>
    /\ UNCHANGED frameVars
    /\ UNCHANGED histVars
    /\ UNCHANGED regVars
    /\ UNCHANGED scopeVars
    /\ UNCHANGED cmVars
    /\ UNCHANGED snapVars

\* the write of self.times -= 1, and the call of the callable
ThreadStore(t) ==
    /\ threads[t].pc = "store"
    /\ threads' = [threads EXCEPT ![t].pc = "loop", ![t].times = 0]
    /\ hs' = [h \in Members(handlers) \cup Held(threads') |->
                IF h = threads[t].h
                THEN [hs[h] EXCEPT !.times = Some(threads[t].times - 1), !.ncalls = @ + 1]
                ELSE hs[h]]
    /\ UNCHANGED <<sig, handlers, idx_gen>>
    /\ UNCHANGED frameVars
    /\ UNCHANGED histVars
    /\ UNCHANGED regVars
    /\ UNCHANGED scopeVars
    /\ UNCHANGED cmVars
    /\ UNCHANGED snapVars

----
\* The inputs

Tiers == Range(PRIORITIES)
TimesChoices == {None, Some(0), Some(MaxTimes)}
AsyncChoices == {None, Some(TRUE), Some(FALSE)}
SwallowChoices == {None, Some(TRUE), Some(FALSE)}
Functions(bases) == {Callable(b, l, None, FALSE) : b \in bases, l \in Layers}
NoTarget(sw) == [target |-> None, swallow_exceptions |-> sw]

\* Dispatch: handlers of every tier, synchronous and asynchronous, with and
\* without a call limit, that return or raise
Next ==
    \/ \E func \in Functions({"f"}), async \in AsyncChoices, priority \in Tiers,
          times \in TimesChoices : Register(func, async, priority, times)
    \/ \E func \in Functions({"f"}) : Unregister(func)
    \/ \E sw \in SwallowChoices : Trigger(NoTarget(sw))
    \/ \E fails \in BOOLEAN : CallSync(None, fails)
    \/ Submit
    \/ LoopEnd
    \/ \E h \in Pending, fails \in BOOLEAN : AsyncRun(h, fails)
    \/ FutureResult
    \/ WaitEnd
    \/ Exit
    \/ Return

Spec == Init /\ [][Next]_vars

\* Unregistration: synchronous handlers of two functions, whose callables
\* may unregister a function from the signal while it dispatches
NextUnreg ==
    \/ \E func \in Functions(Funcs), priority \in Tiers, times \in TimesChoices :
          Register(func, None, priority, times)
    \/ \E func \in Functions(Funcs) : Unregister(func)
    \/ \E sw \in SwallowChoices : Trigger(NoTarget(sw))
    \/ \E eff \in {None} \cup {Some(Callable(b, "plain", None, FALSE)) : b \in Funcs},
          fails \in BOOLEAN : CallSync(eff, fails)
    \/ LoopEnd
    \/ Exit
    \/ Return

SpecUnreg == Init /\ [][NextUnreg]_vars

\* Identifiers: the client sets signal.identifier; functions and bound
\* methods are registered, and triggers name a target or none
Methods ==
    {Callable("f", "plain", Some(o), path) : o \in ObjNames, path \in BOOLEAN}
IdentFuncs ==
    {Callable("f", "plain", None, FALSE)}
        \cup {m \in Methods : m.identifier_path => Objects[Val(m.self)].path # None}
TargetChoices == {None} \cup {Some(t) : t \in Targets \cup {PyNone}}

InitIdent == InitWith({None}, BOOLEAN)

NextIdent ==
    \/ SetIdentifier("target")
    \/ \E func \in IdentFuncs, times \in {None, Some(MaxTimes)} :
          Register(func, None, "NONE", times)
    \/ \E t \in TargetChoices, sw \in {None, Some(TRUE)} :
          Trigger([target |-> t, swallow_exceptions |-> sw])
    \/ \E fails \in BOOLEAN : CallSync(None, fails)
    \/ LoopEnd
    \/ Exit
    \/ Return

SpecIdent == InitIdent /\ [][NextIdent]_vars

\* Registration: signals created with each async setting, and handlers
\* registered with an explicit async flag
InitReg == InitWith(AsyncChoices, {FALSE})

NextReg ==
    \/ \E func \in Functions(Funcs), async \in {Some(TRUE), Some(FALSE)},
          priority \in Tiers, times \in TimesChoices :
          Register(func, async, priority, times)
    \/ \E func \in Functions(Funcs) : Unregister(func)

SpecReg == InitReg /\ [][NextReg]_vars

\* The registry: signals of both classes made and looked up by name, from
\* the main thread and from another one
NextRegistry ==
    \/ \E cls \in Classes, name \in Names, thread \in Threads :
          NewSignal(cls, name, None, FALSE, thread)
    \/ \E name \in Names, func \in Functions({"f"}), priority \in Tiers,
          thread \in Threads :
          register_signal(name, func, None, priority, Some(MaxTimes), thread)
    \/ \E name \in Names, func \in Functions({"f"}) : unregister_signal(name, func)
    \/ \E name \in Names, n \in 0..MaxHandlers, thread \in Threads :
          call_signal(name, n, thread)

SpecRegistry == Init /\ [][NextRegistry]_vars

\* Scopes: functions, plain and wrapped, registered for the time of a with
\* block in which the signal is triggered
NextScope ==
    \/ \E func \in Functions(Funcs), priority \in Tiers :
          Register(func, None, priority, None)
    \/ \E func \in Functions(Funcs), priority \in Tiers, times \in {None, Some(MaxTimes)} :
          RegisteredEnter(func, None, priority, times)
    \/ \E raises \in BOOLEAN : RegisteredExit(raises)
    \/ Trigger(NoTarget(None))
    \/ \E fails \in BOOLEAN : CallSync(None, fails)
    \/ LoopEnd
    \/ Exit
    \/ Return

SpecScope == Init /\ [][NextScope]_vars

\* The scoped variant: synchronous and asynchronous handlers of every tier
\* whose callables return context managers, and a caller's block that
\* returns or raises
NextCtx ==
    \/ \E func \in Functions({"f"}), async \in {None, Some(TRUE)}, priority \in Tiers,
          times \in {None, Some(MaxTimes)} : Register(func, async, priority, times)
    \/ \E sw \in {None, Some(TRUE)} : CtxTrigger(NoTarget(sw))
    \/ \E h \in Pending, fails \in BOOLEAN : CtxAsyncRun(h, fails)
    \/ CtxAsyncEnter
    \/ \E res \in {"none", "cm", "enter_fails"}, fails \in BOOLEAN : CtxCallSync(res, fails)
    \/ CtxYield
    \/ \E raises \in BOOLEAN : CtxBlockEnd(raises)
    \/ \E exit_raises \in BOOLEAN : CtxExitOne(exit_raises)
    \/ CtxExitEnd
    \/ Return

SpecCtx == Init /\ [][NextCtx]_vars

\* The scoped variant with identifiers: the client sets signal.identifier,
\* functions and bound methods are registered, and the variant is entered
\* with a target or with none
CtxIdentFuncs ==
    {Callable("f", "plain", None, FALSE)}
        \cup {Callable("f", "plain", Some(o), FALSE) : o \in {"X", "P"}}

NextCtxIdent ==
    \/ SetIdentifier("target")
    \/ \E func \in CtxIdentFuncs, times \in {None, Some(MaxTimes)} :
          Register(func, None, "NONE", times)
    \/ \E t \in TargetChoices : CtxTrigger([target |-> t, swallow_exceptions |-> None])
    \/ \E res \in {"none", "cm"}, fails \in BOOLEAN : CtxCallSync(res, fails)
    \/ CtxYield
    \/ CtxBlockEnd(FALSE)
    \/ CtxExitOne(FALSE)
    \/ CtxExitEnd
    \/ Return

SpecCtxIdent == InitIdent /\ [][NextCtxIdent]_vars

\* Concurrent triggers: handlers with and without a call limit are
\* registered while no thread is in a trigger, and two threads trigger the
\* signal
NextRace ==
    \/ \E func \in Functions({"f"}), priority \in Tiers, times \in {None, Some(MaxTimes)} :
          /\ \A t \in TriggerThreads : threads[t].pc = "idle"
          /\ Register(func, None, priority, times)
    \/ \E t \in TriggerThreads : ThreadTrigger(t)
    \/ \E t \in TriggerThreads : ThreadNext(t)
    \/ \E t \in TriggerThreads : ThreadCheck(t)
    \/ \E t \in TriggerThreads : ThreadLoad(t)
    \/ \E t \in TriggerThreads : ThreadStore(t)

SpecRace == Init /\ [][NextRace]_vars

\* Registration during dispatch: handlers that return, some of which
\* register a synchronous or an asynchronous handler on the signal
NextSnapshot ==
    \/ \E func \in Functions({"f"}), async \in {None, Some(TRUE)}, priority \in Tiers :
          Register(func, async, priority, None)
    \/ Trigger(NoTarget(None))
    \/ CallSync(None, FALSE)
    \/ \E async \in {None, Some(TRUE)}, priority \in Tiers :
          CallSyncRegistering(Callable("g", "plain", None, FALSE), async, priority, None)
    \/ Submit
    \/ LoopEnd
    \/ \E h \in Pending : AsyncRun(h, FALSE)
    \/ FutureResult
    \/ WaitEnd
    \/ Exit
    \/ Return

SpecSnapshot == Init /\ [][NextSnapshot]_vars

----
\* Properties

TierRank(p) == CASE p = "FIRST" -> 1 [] p = "NONE" -> 2 [] p = "LAST" -> 3
Last(s) == s[Len(s)]
Limited(h) == hs[h].times0 # None
Limit(h) == Val(hs[h].times0)
SyncFailed == {h \in raised : ~hs[h].async}
AsyncFailed == {h \in raised : hs[h].async}

\* C1: the handlers a trigger calls or submits come in tier order FIRST,
\* NONE, LAST, and within a tier in the order of their registration (their
\* idx).
C1_TriggerOrder ==
    \A m, n \in 1..Len(order) :
        m < n =>
            \/ TierRank(hs[order[m]].priority) < TierRank(hs[order[n]].priority)
            \/ /\ hs[order[m]].priority = hs[order[n]].priority
               /\ order[m] < order[n]

\* A finished trigger that ran a handler of an earlier tier, registered
\* later, before one of a later tier, one of them asynchronous.
C1_Witness ==
    /\ pc = "done"
    /\ \E m, n \in 1..Len(order) :
          /\ m < n
          /\ order[m] > order[n]
          /\ hs[order[m]].async # hs[order[n]].async
          /\ {order[m], order[n]} \subseteq ran

\* C2: the callable of a handler registered with a limit of N calls has run
\* at most N times.
C2_AtMostTimes ==
    \A h \in DOMAIN hs : Limited(h) => hs[h].ncalls <= Limit(h)

\* A handler that used up its limit, was left in its tier by the sweep and
\* was called by the dispatch loop again, without its callable running.
C2_Witness ==
    \E h \in Range(order) :
        /\ Limited(h) /\ Limit(h) = MaxTimes
        /\ hs[h].ncalls = MaxTimes
        /\ h \notin ran

\* C3, as claimed: a handler whose callable has run for the Nth time is in
\* no tier.
C3_AbsentAfterNth ==
    \A h \in DOMAIN hs :
        (Limited(h) /\ Limit(h) >= 1 /\ hs[h].ncalls = Limit(h)) => h \notin Members(handlers)

\* C3, amended: a handler with no calls left stays in its tier, with no
\* calls left, until it is removed; the sweep at the start of a trigger
\* removes it, unless that sweep has removed the handler just before it in
\* its tier.
C3_ExpiredUntilSwept ==
    [][ \A p \in Tiers : \A q \in 1..Len(handlers[p]) :
            expired(hs[handlers[p][q]]) =>
                IF pc = "idle" /\ pc' = "dispatch"
                THEN (handlers[p][q] \in Members(handlers'))
                        <=> (q > 1 /\ handlers[p][q - 1] \notin Members(handlers'))
                ELSE handlers[p][q] \in Members(handlers')
                        => hs'[handlers[p][q]] = hs[handlers[p][q]] ]_vars

\* The dispatch loop of a trigger begins with a handler in a tier whose
\* callable has run as often as its limit allows.
C3_Witness ==
    /\ pc = "dispatch"
    /\ order = <<>>
    /\ \E h \in Members(handlers) : Limited(h) /\ Limit(h) >= 1 /\ hs[h].ncalls = Limit(h)

\* C4, as claimed: a trigger during which a handler was unregistered does
\* not crash, and when it returns it has called every handler that is
\* still registered (those of another function than the unregistered one).
C4_NoSkipOnUnregister ==
    (pc = "done" /\ unregd # {}) =>
        /\ result # Some(AttributeError)
        /\ result = Some(Returned) =>
              \A h \in Members(handlers) :
                  (\A u \in unregd : hs[u]._func # hs[h]._func) => h \in Range(order)

C6_MissingIdentifier ==
    [][ (pc = "idle" /\ pc' # "idle" /\ sig.identifier # None /\ kwargs'.target = None) =>
            /\ pc' = "done"
            /\ result' = Some(MissingIdentifier)
            /\ handlers' = handlers
            /\ hs' = hs
            /\ order' = <<>>
            /\ ran' = {} ]_vars

\* A trigger that asked for swallow_exceptions raised MissingIdentifier,
\* with a handler that has no calls left still in its tier.
C6_Witness ==
    /\ pc = "done"
    /\ result = Some(MissingIdentifier)
    /\ kwargs.swallow_exceptions = Some(TRUE)
    /\ \E h \in Members(handlers) : expired(hs[h])

\* The identity of a handler's bound object as the claim resolves it: the
\* identifier path, else the attribute of the identifier's name, else the
\* object itself when it is of the target's type
CanIdentify(h) ==
    \/ hs[h]._func.identifier_path
    \/ Objects[Val(hs[h]._func.self)].attr # None
    \/ Objects[Val(hs[h]._func.self)].cls = ClassOf(Val(kwargs.target))
ResolvedIdentity(h) ==
    IF hs[h]._func.identifier_path THEN Val(Objects[Val(hs[h]._func.self)].path)
    ELSE IF Objects[Val(hs[h]._func.self)].attr # None
    THEN Val(Objects[Val(hs[h]._func.self)].attr)
    ELSE Val(hs[h]._func.self)

\* C7, as claimed: a handler with an identifier (and no call limit) that the
\* dispatch loop called has run its callable if and only if it cannot
\* identify itself or its resolved identity equals the trigger's target.
C7_InvokedIffIdentityMatches ==
    \A h \in Range(order) :
        (hs[h].identifier # None /\ ~Limited(h)) =>
            (h \in ran <=> (~CanIdentify(h) \/ ResolvedIdentity(h) = Val(kwargs.target)))

\* C8, as claimed: no two registered handlers have opposite async flags
\* (under SpecReg every handler is registered with an explicit flag).
C8_OppositeFlagsRejected ==
    \A h1, h2 \in Members(handlers) : hs[h1].async = hs[h2].async

\* C8, amended: on a signal created with an async setting every registered
\* handler has that setting; a registration fails only on such a signal, and
\* a failed registration adds no handler.
C8_SignalSettingEnforced ==
    [][ /\ sig.async # None =>
              \A h \in Members(handlers') : hs'[h].async = Val(sig.async)
        /\ result' = Some(AssertionError) =>
              (sig.async # None /\ handlers' = handlers /\ hs' = hs) ]_vars

\* A registration failed on a signal that has a handler.
C8_Witness ==
    /\ result = Some(AssertionError)
    /\ Members(handlers) # {}

AsyncMembers == {h \in Members(handlers) : hs[h].async}
Once(s, x) == Cardinality({n \in 1..Len(s) : s[n] = x}) = 1
Aborted == SyncFailed # {} /\ ~Swallow

\* C9, as claimed: when the trigger of a signal with two or more
\* asynchronous handlers (without call limits) is over, each of them has
\* run once and none is still running.
C9_EveryAsyncRuns ==
    (pc = "done" /\ Cardinality(AsyncMembers) >= 2) =>
        /\ Pending = {}
        /\ \A h \in AsyncMembers : ~Limited(h) => (h \in ran /\ Once(completed, h))

\* C9, amended: the dispatch loop submits each asynchronous handler once,
\* unless a synchronous handler raised without swallow_exceptions and ended
\* the loop; a submitted handler runs once, its callable executed unless it
\* has no calls left; and the call is over only when every submitted handler
\* has finished.
C9_SubmittedRunOnce ==
    /\ pc \in {"done", "idle"} => Pending = {}
    /\ \A h \in Range(submitted) : Once(submitted, h)
    /\ \A h \in Range(completed) : Once(completed, h) /\ h \in Range(submitted)
    /\ ran \subseteq Range(order)
    /\ pc = "done" =>
          /\ ~Aborted => AsyncMembers \subseteq Range(submitted)
          /\ \A h \in Range(submitted) : h \in ran \/ expired(hs[h])

\* A trigger is over that ran two asynchronous handlers, one of which
\* failed, and raised its exception.
C9_Witness ==
    /\ pc = "done"
    /\ Cardinality(AsyncMembers \cap ran) >= 2
    /\ Cardinality(AsyncFailed) = 1
    /\ \E h \in AsyncFailed : result = Some(HandlerError(h))

\* the first failed handler in completion order
RECURSIVE FirstFailed(_)
FirstFailed(s) ==
    IF s = <<>> THEN 0
    ELSE IF Head(s) \in raised THEN Head(s)
    ELSE FirstFailed(Tail(s))

\* C10, as claimed: a trigger without swallow_exceptions in which two or
\* more asynchronous handlers failed raises the exception of one of them,
\* and every one of the failures is in the log.
C10_OneAsyncErrorRaised ==
    (pc = "done" /\ ~Swallow /\ Cardinality(AsyncFailed) >= 2) =>
        /\ \E h \in AsyncFailed : result = Some(HandlerError(h))
        /\ AsyncFailed \subseteq logged

\* C10, amended: such a trigger raises the exception of the asynchronous
\* handler that failed first in completion order, unless a synchronous
\* handler raised, whose exception it then raises; every one of the failures
\* is in the log.
C10_FirstCompletedOrSync ==
    (pc = "done" /\ ~Swallow /\ Cardinality(AsyncFailed) >= 2) =>
        /\ AsyncFailed \subseteq logged
        /\ IF SyncFailed = {}
           THEN result = Some(HandlerError(FirstFailed(completed)))
           ELSE SyncFailed = {Last(order)} /\ result = Some(HandlerError(Last(order)))

\* A trigger raised the exception of the handler submitted last, two
\* asynchronous handlers having failed.
C10_Witness ==
    /\ pc = "done"
    /\ ~Swallow
    /\ SyncFailed = {}
    /\ Cardinality(AsyncFailed) >= 2
    /\ result = Some(HandlerError(Last(submitted)))

\* The scenario's signal: one synchronous handler in FIRST, one asynchronous
\* handler in NONE, one synchronous handler in LAST, none with a call limit
ScenarioABC ==
    /\ \A p \in Tiers : Len(handlers[p]) = 1
    /\ ~hs[handlers["FIRST"][1]].async
    /\ hs[handlers["NONE"][1]].async
    /\ ~hs[handlers["LAST"][1]].async
    /\ \A h \in Members(handlers) : ~Limited(h)
IsPrefix(s, t) == Len(s) <= Len(t) /\ \A n \in 1..Len(s) : s[n] = t[n]

\* C11: on a signal with A (FIRST, synchronous), B (NONE, asynchronous) and
\* C (LAST, synchronous) a trigger calls A, then submits B, then calls C: A
\* has run when B is submitted, B is submitted when C runs, the call of C is
\* enabled whether or not B has finished, and the trigger is over only when
\* B has finished; a trigger in which neither A nor C raised without
\* swallow_exceptions has gone through all three.
C11_ScenarioABC ==
    (pc # "idle" /\ ScenarioABC) =>
        LET A == handlers["FIRST"][1]
            B == handlers["NONE"][1]
            C == handlers["LAST"][1]
        IN  /\ IsPrefix(order, <<A, B, C>>)
            /\ result # Some(AttributeError)
            /\ Range(order) \ {B} \subseteq ran
            /\ B \in Range(order) <=> B \in Range(submitted)
            /\ (pc = "dispatch" /\ order = <<A, B>>) => ENABLED CallSync(None, FALSE)
            /\ pc = "done" => (B \in Range(submitted) => B \in Range(completed))
            /\ (pc = "done" /\ ~Aborted) => (order = <<A, B, C>> /\ {A, B, C} \subseteq ran)

\* C has run while B, submitted before it, has not finished.
C11_Witness ==
    /\ ScenarioABC
    /\ pc = "dispatch"
    /\ handlers["LAST"][1] \in ran
    /\ handlers["NONE"][1] \in Pending

\* the handlers of a function in the lists, and the first of them in
\* dispatch order
Registrations(hd, H, func) == {h \in Members(hd) : H[h]._func = func}
RECURSIVE FirstOf(_, _, _)
FirstOf(s, H, func) ==
    IF s = <<>> THEN 0
    ELSE IF H[Head(s)]._func = func THEN Head(s)
    ELSE FirstOf(Tail(s), H, func)

\* C12, as claimed: an unregister call between triggers leaves the handler
\* lists as they were or removes one handler, the first in dispatch order
\* of its function, so that of the k registrations of that function k-1
\* remain.
C12_UnregisterRemovesOne ==
    [][ (pc = "idle" /\ pc' = "idle" /\ idx_gen' = idx_gen /\ handlers' # handlers) =>
            \E h \in Members(handlers) :
                /\ h = FirstOf(Flat(handlers), hs, hs[h]._func)
                /\ handlers' = remove_handler(handlers, hs, h)
                /\ Cardinality(Registrations(handlers', hs', hs[h]._func))
                      = Cardinality(Registrations(handlers, hs, hs[h]._func)) - 1 ]_vars

\* C13: the lookups of a name have all returned one object, the one stored
\* under the name; a stored signal stays stored, the same object with the
\* same attributes; a lookup or creation (Signal, ContextManagerSignal)
\* leaves the handler lists of every stored signal as they are, and
\* register_signal only appends one handler to one list of the named signal;
\* and the handler mapping of every stored signal has the three tiers.
C13_OneSignalPerName ==
    [][ /\ \A n \in Names :
              /\ Cardinality(returned'[n]) <= 1
              /\ returned'[n] # {} => (n \in DOMAIN ALL' /\ returned'[n] = {ALL'[n].oid})
        /\ \A n \in DOMAIN ALL' : DOMAIN ALL'[n].handlers = {"FIRST", "NONE", "LAST"}
        /\ \A n \in DOMAIN ALL :
              /\ n \in DOMAIN ALL'
              /\ [ALL'[n] EXCEPT !.handlers = EmptyHandlers]
                    = [ALL[n] EXCEPT !.handlers = EmptyHandlers]
              /\ last'.op = "Signal" => ALL'[n].handlers = ALL[n].handlers
              /\ last'.op = "register_signal" =>
                    \A p \in Tiers : IsPrefix(ALL[n].handlers[p], ALL'[n].handlers[p])
        /\ \A n \in DOMAIN ALL' \ DOMAIN ALL : Members(ALL'[n].handlers) \subseteq {idx_gen}
      ]_vars

\* A name first used by the scoped variant's constructor has been looked
\* up again through Signal, after a handler was registered on it by name.
C13_Witness ==
    /\ "on_ctx_a" \in DOMAIN ALL
    /\ ALL["on_ctx_a"].cls = "ContextManagerSignal"
    /\ Members(ALL["on_ctx_a"].handlers) # {}
    /\ last = [op |-> "Signal", name |-> "on_ctx_a", ret |-> ALL["on_ctx_a"].oid, exc |-> ""]

\* C14, as claimed: when the scope of a function that had no handler before
\* the entry is left, by return or by exception, the handler the entry made
\* is in no tier.
C14_ScopeUnregisters ==
    [][ (scope.open /\ ~scope'.open /\ ~scope.before) =>
            scope.h \notin Members(handlers') ]_vars

RECURSIVE Reverse(_)
Reverse(s) == IF s = <<>> THEN <<>> ELSE Reverse(Tail(s)) \o <<Head(s)>>

\* C15: in the scoped variant the resources entered are, in order of
\* acquisition, those still on the stack followed by those exited, last
\* exited first: a resource is exited once, after every resource entered
\* later; none is exited while the handlers are entered or the caller's
\* block runs; and when the call is over, its block having returned or
\* raised, every resource entered has been exited.
C15_ReverseOrderExit ==
    /\ entered = stack \o Reverse(exited)
    /\ \A m, n \in 1..Len(entered) : m # n => entered[m] # entered[n]
    /\ pc \in {"cm_async", "cm_sync", "block"} => exited = <<>>
    /\ pc \in {"done", "idle"} => stack = <<>>

\* The caller's block raised and the call is over, raising the block's
\* exception: the context managers of two synchronous handlers and then the
\* asynchronous group have been exited.
C15_Witness ==
    /\ pc = "done"
    /\ Len(exited) = 3
    /\ exited[3] = 0
    /\ result = Some(BlockError)

\* C16, as claimed: entering the scoped variant of a signal with an
\* identifier, with keyword arguments that lack it, raises MissingIdentifier
\* with no handler called; and when the variant begins to call handlers, no
\* handler with a budget of zero is in a tier.
C16_SameEnterSteps ==
    [][ (pc = "idle" /\ pc' # "idle") =>
            /\ (sig.identifier # None /\ kwargs'.target = None) =>
                  (pc' = "done" /\ result' = Some(MissingIdentifier))
            /\ pc' \in {"cm_async", "cm_sync"} =>
                  \A h \in Members(handlers') : ~expired(hs'[h]) ]_vars

\* C17, as claimed: when the dispatch loop of a plain trigger begins, no
\* tier holds a handler with a budget of zero.
C17_SweepRemovesAllExpired ==
    (pc = "dispatch" /\ order = <<>>) =>
        \A p \in Tiers : \A q \in 1..Len(handlers[p]) : ~expired(hs[handlers[p][q]])

\* C18, as claimed: the budget of a handler registered with a call limit
\* is never negative, also when two threads trigger the signal
\* concurrently.
C18_TimesNeverNegative ==
    \A h \in DOMAIN hs : hs[h].times # None => Val(hs[h].times) >= 0

\* C19, as claimed: a trigger neither calls nor submits a handler that was
\* registered while its dispatch loop ran, and a trigger during which a
\* handler was registered, no callable having raised, returns normally.
C19_DispatchOverSnapshot ==
    /\ Range(order) \cap midreg = {}
    /\ (pc = "done" /\ midreg # {} /\ raised = {}) => result = Some(Returned)

\* C20, as claimed: on enter the scoped variant invokes the handlers in
\* tier order FIRST, NONE, LAST and, within a tier, in registration order.
\* Stated over the pairs with a synchronous handler, whose order the two
\* loops of ContextManagerSignal.__call__ decide: of two handlers invoked,
\* one of them synchronous, the one invoked first is of an earlier tier, or
\* of the same tier and registered first.
C20_CtxEnterOrder ==
    pc \in {"cm_async", "cm_sync", "block", "cm_exit"} =>
        \A n \in 1..Len(order) : \A m \in 1..(n - 1) :
            (~hs[order[m]].async \/ ~hs[order[n]].async) =>
                IF hs[order[m]].priority = hs[order[n]].priority
                THEN order[m] < order[n]
                ELSE TierRank(hs[order[m]].priority) < TierRank(hs[order[n]].priority)

====
